---- MODULE Spec2Model ----
(***************************************************************************)
(* Model of biokb_obo's import pipeline: DbManager.import_data             *)
(* (src/src/biokb_obo/db/manager.py) writing the relational schema of      *)
(* src/src/biokb_obo/db/models.py.                                         *)
(*                                                                         *)
(* The store holds what has been committed (db) and what the session has   *)
(* flushed but not committed (tx).  The file fetcher, the parser and the   *)
(* store are collaborators: their failures are inputs of the steps that    *)
(* call them.  calls is the sequence of collaborator calls made by the     *)
(* import_data call in progress.                                           *)
(***************************************************************************)
EXTENDS Integers, Sequences, FiniteSets, TLC

\* ---------------------------------------------------------------- bounds
MaxNames == 2

\* requested ontology names
OboNames == {"go", "doid"}

\* ------------------------------------------------------- ontology files
\* A class of a loaded ontology.  A field that is absent from the record
\* is an attribute for which hasattr(cls, ...) is false.
ClsCancer ==
    [name |-> "T1", label |-> <<"Cancer">>, IAO_0000115 |-> <<"A malignant tumor">>,
     hasExactSynonym |-> <<"Carcinoma">>, hasDbXref |-> << <<"NCIT", ":", "C9305">> >>]

ClsPlain ==
    [name |-> "T2", label |-> <<"Tumor", "Neoplasm">>, IAO_0000115 |-> <<>>,
     hasExactSynonym |-> <<>>, hasRelatedSynonym |-> <<"Growth", "Growth">>,
     hasDbXref |-> << <<"MESH">>, <<"DOID", ":", "1234", ":", "extra">> >>,
     hasAlternativeId |-> <<"T9">>]

ClsNoLabel ==
    [name |-> "T3", label |-> <<>>, hasNarrowSynonym |-> <<"Mass">>,
     hasBroadSynonym |-> <<"Lesion">>, hasAlternativeId |-> <<"T8">>]

\* a class of another namespace with the short name of ClsCancer
ClsSameName ==
    [name |-> "T1", label |-> <<"Crab">>, hasBroadSynonym |-> <<"Animal">>]

\* a file the parser cannot read
Malformed == [malformed |-> TRUE]

\* no file at the path
NoFile == [absent |-> TRUE]

\* what the remote source can serve for a name: an ontology with its metadata
\* annotations and its classes, or a file the parser cannot read
Remote ==
    { [versionInfo |-> <<>>, description |-> <<>>, title |-> <<>>, classes |-> <<>>],
      [versionInfo |-> <<"v1">>, description |-> <<"line 1", "line 2">>,
       title |-> <<"Disease">>, classes |-> <<ClsCancer>>],
      [versionInfo |-> <<"v2", "x">>, description |-> <<"text">>, title |-> <<>>,
       classes |-> <<ClsNoLabel, ClsPlain>>],
      [versionInfo |-> <<"v3">>, description |-> <<>>, title |-> <<"Crabs", "Cancer">>,
       classes |-> <<ClsCancer, ClsSameName>>],
      Malformed }

\* ------------------------------------------------------------ extraction
Has(cls, attr) == attr \in DOMAIN cls

Attr(cls, attr) == IF Has(cls, attr) THEN cls[attr] ELSE <<>>

\* ":" in xref
HasSep(xref) == \E k \in 1..Len(xref) : xref[k] = ":"

FirstSep(xref) == CHOOSE k \in 1..Len(xref) : xref[k] = ":" /\ \A j \in 1..(k-1) : xref[j] # ":"

\* xref.split(":", 1)
SplitXref(xref) ==
    [database |-> SubSeq(xref, 1, FirstSep(xref) - 1),
     reference_id |-> SubSeq(xref, FirstSep(xref) + 1, Len(xref))]

RECURSIVE SeqMap(_, _, _)
\* [ {"term_id": term_id, "synonym": str(syn), "type": type} for syn in values ]
SeqMap(values, term_id, type) ==
    IF values = <<>> THEN <<>>
    ELSE <<[term_id |-> term_id, synonym |-> Head(values), type |-> type]>>
         \o SeqMap(Tail(values), term_id, type)

SynonymsOf(cls) ==
    SeqMap(Attr(cls, "hasExactSynonym"), cls.name, "exact")
    \o SeqMap(Attr(cls, "hasRelatedSynonym"), cls.name, "related")
    \o SeqMap(Attr(cls, "hasNarrowSynonym"), cls.name, "narrow")
    \o SeqMap(Attr(cls, "hasBroadSynonym"), cls.name, "broad")

RECURSIVE XrefsOf(_, _)
XrefsOf(xrefs, term_id) ==
    IF xrefs = <<>> THEN <<>>
    ELSE (IF HasSep(Head(xrefs))
          THEN <<[term_id |-> term_id,
                  database |-> SplitXref(Head(xrefs)).database,
                  reference_id |-> SplitXref(Head(xrefs)).reference_id]>>
          ELSE <<>>)
         \o XrefsOf(Tail(xrefs), term_id)

RECURSIVE IdentifiersOf(_, _)
IdentifiersOf(alts, term_id) ==
    IF alts = <<>> THEN <<>>
    ELSE <<[term_id |-> term_id, identifier |-> Head(alts)]>>
         \o IdentifiersOf(Tail(alts), term_id)

NoValue == "None"

TermOf(cls, ontology_id) ==
    [id |-> cls.name,
     name |-> IF cls.label # <<>> THEN cls.label[1] ELSE cls.name,
     definition |-> IF Has(cls, "IAO_0000115") /\ cls.IAO_0000115 # <<>>
                    THEN cls.IAO_0000115[1] ELSE NoValue,
     ontology_id |-> ontology_id]

EmptyData == [terms |-> <<>>, synonyms |-> <<>>, identifiers |-> <<>>, xrefs |-> <<>>]

RECURSIVE ExtractUnfiltered(_, _)
\* Extract without the test of the label: every class becomes a term
ExtractUnfiltered(classes, ontology_id) ==
    IF classes = <<>> THEN EmptyData
    ELSE LET cls == Head(classes)
             rest == ExtractUnfiltered(Tail(classes), ontology_id)
         IN [terms |-> <<TermOf(cls, ontology_id)>> \o rest.terms,
             synonyms |-> SynonymsOf(cls) \o rest.synonyms,
             identifiers |-> IdentifiersOf(Attr(cls, "hasAlternativeId"), cls.name)
                             \o rest.identifiers,
             xrefs |-> XrefsOf(Attr(cls, "hasDbXref"), cls.name) \o rest.xrefs]

RECURSIVE Extract(_, _)
\* the four batches built from the classes of the loaded ontology
Extract(classes, ontology_id) ==
    IF classes = <<>> THEN EmptyData
    ELSE LET cls == Head(classes)
             rest == Extract(Tail(classes), ontology_id)
         IN IF Has(cls, "label") /\ cls.label # <<>>
            THEN [terms |-> <<TermOf(cls, ontology_id)>> \o rest.terms,
                  synonyms |-> SynonymsOf(cls) \o rest.synonyms,
                  identifiers |-> IdentifiersOf(Attr(cls, "hasAlternativeId"), cls.name)
                                  \o rest.identifiers,
                  xrefs |-> XrefsOf(Attr(cls, "hasDbXref"), cls.name) \o rest.xrefs]
            ELSE rest


\* ------------------------------------------------------------ the store
EmptyRows == [ontology |-> {}, term |-> {}, synonym |-> <<>>, identifier |-> <<>>, xref |-> <<>>]

\* models.Base.metadata.drop_all: every table and every row is gone
DropAll(store) == [tables |-> FALSE, rows |-> EmptyRows]

\* models.Base.metadata.create_all: creates the missing tables, keeps the rows
CreateAll(store) == [store EXCEPT !.tables = TRUE]

\* session.query(models.Ontology).filter(models.Ontology.id == obo_name).first()
Existing(rows, obo_name) == \E o \in rows.ontology : o.id = obo_name

\* Term rows whose foreign key ontology_id references the ontology
TermsOfOntology(rows, ontology_id) == {t \in rows.term : t.ontology_id = ontology_id}

\* session.query(models.Ontology).filter(models.Ontology.id == obo_name).delete()
\* A query-level DELETE of the obo_ontology rows: the relationship cascade of
\* models.py is not run by it and the foreign keys declare no ON DELETE.
DeleteOntology(rows, obo_name) ==
    [rows EXCEPT !.ontology = {o \in rows.ontology : o.id # obo_name}]

\* a store that enforces foreign keys rejects the DELETE of a referenced row
DeleteRejected(rows, obo_name, enforced) ==
    enforced /\ TermsOfOntology(rows, obo_name) # {}

SeqToSet(seq) == {seq[k] : k \in 1..Len(seq)}

DistinctIds(batch) == \A j, k \in 1..Len(batch) : batch[j].id = batch[k].id => j = k

\* primary key of obo_ontology: id
OntologyKeyFree(rows, pending, row) ==
    \A o \in rows.ontology \cup pending.ontology : o.id # row.id

\* TermKeysFree of a table whose key is not the identifier written by the import
TermKeysUnchecked(rows, pending, batch) == TRUE

\* primary key of obo_term: id
TermKeysFree(rows, pending, batch) ==
    /\ DistinctIds(batch)
    /\ \A t \in rows.term \cup pending.term : \A k \in 1..Len(batch) : batch[k].id # t.id

\* session.bulk_insert_mappings of the four batches into the transaction
BulkInsert(pending, batches) ==
    [pending EXCEPT !.term = @ \cup SeqToSet(batches.terms),
                    !.synonym = @ \o batches.synonyms,
                    !.identifier = @ \o batches.identifiers,
                    !.xref = @ \o batches.xrefs]

\* session.commit(): the flushed rows become part of the committed rows
CommitRows(rows, pending) ==
    [ontology |-> rows.ontology \cup pending.ontology,
     term |-> rows.term \cup pending.term,
     synonym |-> rows.synonym \o pending.synonym,
     identifier |-> rows.identifier \o pending.identifier,
     xref |-> rows.xref \o pending.xref]

\* --------------------------------------------------------------- files
DATA_FOLDER == "data"

\* os.path.join(self.__data_folder, f"{obo_name}.owl")
OwlPath(obo_name) == <<DATA_FOLDER, obo_name, ".owl">>

\* the obo_name the path stands for
PathName(owl_file_path) == owl_file_path[2]

\* onto.name of get_ontology(f"file://{owl_file_path}"): the last component of
\* the path without its .owl suffix
OntoName(owl_file_path) == owl_file_path[Len(owl_file_path) - 1]

\* os.path.exists(owl_file_path)
Exists(fs, owl_file_path) == fs[PathName(owl_file_path)] # NoFile

\* not os.path.exists(owl_file_path) or force_download
MustDownload(fs, owl_file_path, force_download) ==
    ~Exists(fs, owl_file_path) \/ force_download

\* os.remove(owl_file_path)
Remove(fs, owl_file_path) == [fs EXCEPT ![PathName(owl_file_path)] = NoFile]

\* ---------------------------------------------------------------- state
\* db            the committed store: whether the tables exist, and the rows
\* tx            rows the session has flushed and not committed
\* fkEnforced    whether the engine behind the store enforces foreign keys
\* files         the data folder: the content of <obo_name>.owl, or NoFile
\* pc            position in import_data; "idle" between calls
\* args, idx, returned_data, owl_file_path, onto, data
\*               parameters and locals of the call in progress
\* error         the exception that left the call
\* calls         collaborator calls of the call in progress, by loop turn
\* turnRows      the committed rows when the current turn looked its name up
\* written       rows the commits of the call in progress added to the store
VARIABLES db, tx, fkEnforced, files, pc, args, idx, returned_data,
          owl_file_path, onto, data, error, calls, turnRows, written

vars == <<db, tx, fkEnforced, files, pc, args, idx, returned_data,
          owl_file_path, onto, data, error, calls, turnRows, written>>

Bool == {TRUE, FALSE}

\* the defaults of import_data's parameters
NoArgs == [obo_names |-> <<>>, rebuild |-> FALSE, overwrite |-> FALSE,
           force_download |-> FALSE, keep_files |-> FALSE]

\* no path computed, no ontology loaded yet
NoPath == <<>>
NoOnto == [name |-> NoValue, base_iri |-> <<>>,
           metadata |-> [versionInfo |-> <<>>, description |-> <<>>, title |-> <<>>],
           classes |-> <<>>]

NameLists == UNION {[1..n -> OboNames] : n \in 0..MaxNames}

Kinds == {"terms", "synonyms", "identifiers", "xrefs"}

\* defaultdict(int)
ZeroCounts == [k \in Kinds |-> 0]

Call(op) == [op |-> op, turn |-> idx]

obo_name == args.obo_names[idx]

Init ==
    /\ db = [tables |-> FALSE, rows |-> EmptyRows]
    /\ tx = EmptyRows
    /\ fkEnforced \in Bool
    /\ files = [n \in OboNames |-> NoFile]
    /\ pc = "idle"
    /\ args = NoArgs
    /\ idx = 1
    /\ returned_data = ZeroCounts
    /\ owl_file_path = NoPath
    /\ onto = NoOnto
    /\ data = EmptyData
    /\ error = NoValue
    /\ calls = <<>>
    /\ turnRows = EmptyRows
    /\ written = ZeroCounts

\* the exceptions of the collaborators: urlretrieve, the parser, a constraint
\* of the schema, any other rejection of a statement by the engine
URLError == "URLError"
ParseError == "ParseError"
IntegrityError == "IntegrityError"
OperationalError == "OperationalError"

\* number of rows per kind of record
RowCounts(rows) ==
    [terms |-> Cardinality(rows.term), synonyms |-> Len(rows.synonym),
     identifiers |-> Len(rows.identifier), xrefs |-> Len(rows.xref)]

\* an exception leaves import_data: the with block closes the session, which
\* rolls back what was flushed and not committed; the locals of the call die
Raise(exc) ==
    /\ pc' = "raised"
    /\ error' = exc
    /\ tx' = EmptyRows
    /\ owl_file_path' = NoPath
    /\ onto' = NoOnto
    /\ data' = EmptyData

\* Rebuild that only creates the missing tables
RebuildKeepsRows(store, rebuild) == CreateAll(store)

\* lines 84-86: drop_all when rebuild is set, then create_all
Rebuild(store, rebuild) == CreateAll(IF rebuild THEN DropAll(store) ELSE store)

\* lines 83-88: a call of import_data
ImportData ==
    /\ pc = "idle"
    /\ \E names \in NameLists, rebuild, overwrite, force_download, keep_files \in Bool :
          /\ args' = [obo_names |-> names, rebuild |-> rebuild, overwrite |-> overwrite,
                      force_download |-> force_download, keep_files |-> keep_files]
          /\ db' = Rebuild(db, rebuild)
          /\ calls' = (IF rebuild THEN <<[op |-> "drop_all", turn |-> 0]>> ELSE <<>>)
                      \o <<[op |-> "create_all", turn |-> 0]>>
    /\ returned_data' = ZeroCounts
    /\ idx' = 1
    /\ pc' = "lookup"
    /\ tx' = EmptyRows
    /\ turnRows' = db'.rows
    /\ written' = ZeroCounts
    /\ UNCHANGED <<fkEnforced, files, owl_file_path, onto, data, error>>

\* LookupSkip without the continue: the existing name goes on to the download
LookupSkipFallsThrough ==
    /\ pc = "lookup" /\ idx <= Len(args.obo_names)
    /\ Existing(db.rows, obo_name) /\ ~args.overwrite
    /\ calls' = calls \o <<Call("query")>>
    /\ pc' = "download"
    /\ turnRows' = db.rows
    /\ UNCHANGED <<db, tx, fkEnforced, files, idx, args, returned_data,
                   owl_file_path, onto, data, error, written>>

\* lines 89-101: the ontology exists and overwrite is off: continue
LookupSkip ==
    /\ pc = "lookup" /\ idx <= Len(args.obo_names)
    /\ Existing(db.rows, obo_name) /\ ~args.overwrite
    /\ calls' = calls \o <<Call("query")>>
    /\ idx' = idx + 1
    /\ turnRows' = db.rows
    /\ UNCHANGED <<db, tx, fkEnforced, files, pc, args, returned_data,
                   owl_file_path, onto, data, error, written>>

\* lines 103-111: the ontology exists and overwrite is on: delete, commit
LookupOverwrite ==
    /\ pc = "lookup" /\ idx <= Len(args.obo_names)
    /\ Existing(db.rows, obo_name) /\ args.overwrite
    /\ turnRows' = db.rows
    /\ calls' = calls \o <<Call("query"), Call("delete")>>
    /\ \E accepted \in Bool :
          IF ~accepted
          THEN Raise(OperationalError) /\ db' = db
          ELSE IF DeleteRejected(db.rows, obo_name, fkEnforced)
          THEN Raise(IntegrityError) /\ db' = db
          ELSE /\ db' = [db EXCEPT !.rows = DeleteOntology(db.rows, obo_name)]
               /\ pc' = "download"
               /\ UNCHANGED <<tx, owl_file_path, onto, data, error>>
    /\ UNCHANGED <<fkEnforced, files, args, idx, returned_data, written>>

\* lines 91-97, 103: nothing persisted under the name
LookupNew ==
    /\ pc = "lookup" /\ idx <= Len(args.obo_names)
    /\ ~Existing(db.rows, obo_name)
    /\ calls' = calls \o <<Call("query")>>
    /\ turnRows' = db.rows
    /\ pc' = "download"
    /\ UNCHANGED <<db, tx, fkEnforced, files, args, idx, returned_data,
                   owl_file_path, onto, data, error, written>>

\* Download calling urlretrieve a second time when the first call raised
DownloadRetry ==
    /\ pc = "download"
    /\ LET path == OwlPath(obo_name) IN
       IF MustDownload(files, path, args.force_download)
       THEN \/ /\ calls' = calls \o <<Call("download"), Call("urlretrieve")>>
               /\ \E content \in Remote :
                     /\ files' = [files EXCEPT ![PathName(path)] = content]
                     /\ owl_file_path' = path
                     /\ pc' = "load"
                     /\ UNCHANGED <<tx, onto, data, error>>
            \/ /\ calls' = calls \o <<Call("download"), Call("urlretrieve"), Call("urlretrieve")>>
               /\ Raise(URLError)
               /\ UNCHANGED files
       ELSE /\ calls' = calls \o <<Call("download")>>
            /\ owl_file_path' = path
            /\ pc' = "load"
            /\ UNCHANGED <<files, tx, onto, data, error>>
    /\ UNCHANGED <<db, fkEnforced, args, idx, returned_data, turnRows, written>>

\* lines 113-115, 65-73: __download_data; urlretrieve either stores what the
\* remote source serves or raises
Download ==
    /\ pc = "download"
    /\ LET path == OwlPath(obo_name) IN
       IF MustDownload(files, path, args.force_download)
       THEN /\ calls' = calls \o <<Call("download"), Call("urlretrieve")>>
            /\ \/ \E content \in Remote :
                     /\ files' = [files EXCEPT ![PathName(path)] = content]
                     /\ owl_file_path' = path
                     /\ pc' = "load"
                     /\ UNCHANGED <<tx, onto, data, error>>
               \/ /\ Raise(URLError)
                  /\ UNCHANGED files
       ELSE /\ calls' = calls \o <<Call("download")>>
            /\ owl_file_path' = path
            /\ pc' = "load"
            /\ UNCHANGED <<files, tx, onto, data, error>>
    /\ UNCHANGED <<db, fkEnforced, args, idx, returned_data, turnRows, written>>

\* the handle of get_ontology(f"file://{owl_file_path}").load()
Ontology(path, content) ==
    [name |-> OntoName(path),
     base_iri |-> <<"file://">> \o path \o <<"#">>,
     metadata |-> [versionInfo |-> content.versionInfo,
                   description |-> content.description,
                   title |-> content.title],
     classes |-> content.classes]

\* line 116: get_ontology(...).load(); a malformed file raises
Load ==
    /\ pc = "load"
    /\ calls' = calls \o <<Call("load")>>
    /\ IF files[PathName(owl_file_path)] \in {Malformed, NoFile}
       THEN Raise(ParseError)
       ELSE /\ onto' = Ontology(owl_file_path, files[PathName(owl_file_path)])
            /\ pc' = "add"
            /\ UNCHANGED <<tx, owl_file_path, data, error>>
    /\ UNCHANGED <<db, fkEnforced, files, args, idx, returned_data, turnRows, written>>

RECURSIVE Join(_, _)
\* sep.join(values)
Join(sep, values) ==
    IF Len(values) <= 1 THEN values
    ELSE <<Head(values), sep>> \o Join(sep, Tail(values))

\* OntologyRow taking the last version-info value instead of the first
OntologyRowLastVersion(handle) ==
    [id |-> handle.name,
     iri |-> handle.base_iri,
     version |-> IF handle.metadata.versionInfo # <<>>
                 THEN <<handle.metadata.versionInfo[Len(handle.metadata.versionInfo)]>>
                 ELSE <<>>,
     description |-> IF handle.metadata.description # <<>>
                     THEN Join("\n", handle.metadata.description) ELSE <<>>,
     title |-> IF handle.metadata.title # <<>> THEN <<handle.metadata.title[1]>> ELSE <<>>]

\* lines 118-133: models.Ontology(id=onto.name, iri=onto.base_iri, version=...,
\* description=..., title=...); an absent value (None) is the empty sequence
OntologyRow(handle) ==
    [id |-> handle.name,
     iri |-> handle.base_iri,
     version |-> IF handle.metadata.versionInfo # <<>>
                 THEN <<handle.metadata.versionInfo[1]>> ELSE <<>>,
     description |-> IF handle.metadata.description # <<>>
                     THEN Join("\n", handle.metadata.description) ELSE <<>>,
     title |-> IF handle.metadata.title # <<>> THEN <<handle.metadata.title[1]>> ELSE <<>>]

\* lines 134-135: session.add(ontology); session.flush().  The engine takes
\* the INSERT or rejects it: the primary key is taken (IntegrityError), or the
\* statement fails for another reason (accepted = FALSE), among them a value
\* the column types and NOT NULL constraints of the mapped schema do not admit.
AddOntology ==
    /\ pc = "add"
    /\ calls' = calls \o <<Call("flush")>>
    /\ \E accepted \in Bool :
          IF ~accepted
          THEN Raise(OperationalError)
          ELSE IF ~OntologyKeyFree(db.rows, tx, OntologyRow(onto))
          THEN Raise(IntegrityError)
          ELSE /\ tx' = [tx EXCEPT !.ontology = @ \cup {OntologyRow(onto)}]
               /\ pc' = "extract"
               /\ UNCHANGED <<owl_file_path, onto, data, error>>
    /\ UNCHANGED <<db, fkEnforced, files, args, idx, returned_data, turnRows, written>>

\* lines 138-221: the loop over onto.classes()
ExtractClasses ==
    /\ pc = "extract"
    /\ data' = Extract(onto.classes, OntologyRow(onto).id)
    /\ pc' = "insert"
    /\ UNCHANGED <<db, tx, fkEnforced, files, args, idx, returned_data,
                   owl_file_path, onto, error, calls, turnRows, written>>

\* lines 225-230: the four bulk inserts
InsertData ==
    /\ pc = "insert"
    /\ calls' = calls \o <<Call("bulk_insert")>>
    /\ \E accepted \in Bool :
          IF ~accepted
          THEN Raise(OperationalError)
          ELSE IF ~TermKeysFree(db.rows, tx, data.terms)
          THEN Raise(IntegrityError)
          ELSE /\ tx' = BulkInsert(tx, data)
               /\ pc' = "commit"
               /\ UNCHANGED <<owl_file_path, onto, data, error>>
    /\ UNCHANGED <<db, fkEnforced, files, args, idx, returned_data, turnRows, written>>

\* lines 232-233: session.commit(); session.close()
Commit ==
    /\ pc = "commit"
    /\ calls' = calls \o <<Call("commit")>>
    /\ db' = [db EXCEPT !.rows = CommitRows(db.rows, tx)]
    /\ tx' = EmptyRows
    /\ pc' = "account"
    /\ written' = [k \in Kinds |-> written[k] + RowCounts(db'.rows)[k] - RowCounts(db.rows)[k]]
    /\ UNCHANGED <<fkEnforced, files, args, idx, returned_data,
                   owl_file_path, onto, data, error, turnRows>>

\* Accumulate assigning the counts of the last ontology instead of adding them
AccumulateLast(counts, batches) ==
    [terms |-> Len(batches.terms),
     synonyms |-> Len(batches.synonyms),
     identifiers |-> Len(batches.identifiers),
     xrefs |-> Len(batches.xrefs)]

\* lines 235-238: returned_data[...] += len(...)
Accumulate(counts, batches) ==
    [terms |-> counts.terms + Len(batches.terms),
     synonyms |-> counts.synonyms + Len(batches.synonyms),
     identifiers |-> counts.identifiers + Len(batches.identifiers),
     xrefs |-> counts.xrefs + Len(batches.xrefs)]

\* Cleanup with the flag inverted
CleanupInverted(fs, path, keep_files) == IF keep_files THEN Remove(fs, path) ELSE fs

\* lines 240-242: if not keep_files: os.remove(owl_file_path)
Cleanup(fs, path, keep_files) == IF ~keep_files THEN Remove(fs, path) ELSE fs

\* lines 235-242: the counts, the removal of the file, the next name
Account ==
    /\ pc = "account"
    /\ returned_data' = Accumulate(returned_data, data)
    /\ files' = Cleanup(files, owl_file_path, args.keep_files)
    /\ calls' = calls \o (IF ~args.keep_files THEN <<Call("remove")>> ELSE <<>>)
    /\ idx' = idx + 1
    /\ pc' = "lookup"
    /\ owl_file_path' = NoPath
    /\ onto' = NoOnto
    /\ data' = EmptyData
    /\ UNCHANGED <<db, tx, fkEnforced, args, error, turnRows, written>>

\* line 244: return returned_data
Return ==
    /\ pc = "lookup" /\ idx > Len(args.obo_names)
    /\ pc' = "returned"
    /\ owl_file_path' = NoPath
    /\ onto' = NoOnto
    /\ data' = EmptyData
    /\ UNCHANGED <<db, tx, fkEnforced, files, args, idx, returned_data,
                   error, calls, turnRows, written>>

\* the call is over: its result or its exception is with the caller and the
\* frame of the call is gone; the store and the files stay
EndCall ==
    /\ pc \in {"returned", "raised"}
    /\ pc' = "idle"
    /\ args' = NoArgs
    /\ idx' = 1
    /\ returned_data' = ZeroCounts
    /\ calls' = <<>>
    /\ turnRows' = EmptyRows
    /\ written' = ZeroCounts
    /\ error' = NoValue
    /\ UNCHANGED <<db, tx, fkEnforced, files, owl_file_path, onto, data>>

Next ==
    \/ ImportData
    \/ LookupSkip
    \/ LookupOverwrite
    \/ LookupNew
    \/ Download
    \/ Load
    \/ AddOntology
    \/ ExtractClasses
    \/ InsertData
    \/ Commit
    \/ Account
    \/ Return
    \/ EndCall

Spec == Init /\ [][Next]_vars

TypeOK ==
    /\ pc \in {"idle", "lookup", "download", "load", "add", "extract", "insert",
               "commit", "account", "returned", "raised"}
    /\ idx \in 1..(MaxNames + 1)
    /\ \A k \in Kinds : returned_data[k] \in Nat


\* --------------------------------------------------------------- claims
Called(op, turn) == \E k \in 1..Len(calls) : calls[k] = [op |-> op, turn |-> turn]

CountCalled(op, turn) == Cardinality({k \in 1..Len(calls) : calls[k] = [op |-> op, turn |-> turn]})

TermIds(terms) == {t.id : t \in terms}

RECURSIVE Referencing(_, _)
\* the child rows whose term_id is one of ids
Referencing(children, ids) ==
    IF children = <<>> THEN <<>>
    ELSE (IF Head(children).term_id \in ids THEN <<Head(children)>> ELSE <<>>)
         \o Referencing(Tail(children), ids)

\* the rows of the store that belong to the ontologies of names
RowsOf(rows, names) ==
    LET terms == {t \in rows.term : t.ontology_id \in names} IN
    [ontology |-> {o \in rows.ontology : o.id \in names},
     term |-> terms,
     synonym |-> Referencing(rows.synonym, TermIds(terms)),
     identifier |-> Referencing(rows.identifier, TermIds(terms)),
     xref |-> Referencing(rows.xref, TermIds(terms))]

\* the term rows and child rows of the ontology name
ChildRows(rows, name) == [RowsOf(rows, {name}) EXCEPT !.ontology = {}]

\* C1: a requested name that has an Ontology row when its turn comes is
\* skipped when overwrite is off: the step that handles it calls neither the
\* fetcher nor the parser for the turn, changes no committed or flushed row,
\* no file and no count, and moves on to the next name.
C1_SkipExisting ==
    [][(pc = "lookup" /\ idx <= Len(args.obo_names)
        /\ Existing(db.rows, obo_name) /\ ~args.overwrite)
       => /\ db' = db /\ tx' = tx /\ files' = files
          /\ returned_data' = returned_data
          /\ written' = written
          /\ \A op \in {"download", "urlretrieve", "load", "flush", "bulk_insert", "delete"} :
                ~(Called(op, idx))'
          /\ pc' = "lookup" /\ idx' = idx + 1]_vars

C1_Witness ==
    /\ pc = "returned" /\ ~args.overwrite /\ Len(args.obo_names) = 2
    /\ Called("commit", 1) /\ ~Called("download", 2)
    /\ Existing(db.rows, args.obo_names[2])
    /\ returned_data.terms > 0

C5_FetchFailure ==
    error = URLError
    => /\ pc = "raised"
       /\ CountCalled("urlretrieve", idx) = 1
       /\ calls[Len(calls)] = [op |-> "urlretrieve", turn |-> idx]
       /\ tx = EmptyRows
       /\ RowsOf(db.rows, OboNames \ {obo_name}) = RowsOf(turnRows, OboNames \ {obo_name})

C5_Witness ==
    /\ error = URLError /\ idx = 2 /\ Called("commit", 1)
    /\ args.obo_names[1] # args.obo_names[2]
    /\ RowsOf(db.rows, {args.obo_names[1]}).synonym # <<>>

\* number of rows of each table
TableCounts(rows) ==
    [ontology |-> Cardinality(rows.ontology), term |-> Cardinality(rows.term),
     synonym |-> Len(rows.synonym), identifier |-> Len(rows.identifier),
     xref |-> Len(rows.xref)]

C8_CountsAreTotals ==
    pc \in {"lookup", "returned"} => \A k \in Kinds : returned_data[k] = written[k]

C8_Witness ==
    /\ pc = "returned" /\ Called("commit", 1) /\ Called("commit", 2)
    /\ returned_data.terms = 2 /\ returned_data.synonyms = 3
    /\ returned_data.identifiers = 1 /\ returned_data.xrefs = 2

DropCalls == {k \in 1..Len(calls) : calls[k].op = "drop_all"}

\* C9: a call with rebuild on drops the schema once, as its first step, and
\* a call with rebuild off never; until the first commit of a rebuilding call
\* the recreated tables are empty, and a rebuilding call with no names
\* returns with the tables created, no rows and all counts zero.
C9_RebuildOnce ==
    pc # "idle" =>
       /\ DropCalls = (IF args.rebuild THEN {1} ELSE {})
       /\ db.tables
       /\ (args.rebuild /\ \A turn \in 1..MaxNames : ~Called("commit", turn))
             => db.rows = EmptyRows
       /\ (pc = "returned" /\ args.rebuild /\ args.obo_names = <<>>)
             => db.rows = EmptyRows /\ returned_data = ZeroCounts

C9_Witness ==
    /\ pc = "returned" /\ args.rebuild /\ args.obo_names = <<>>
    /\ calls = <<[op |-> "drop_all", turn |-> 0], [op |-> "create_all", turn |-> 0]>>
    /\ \E name \in OboNames : files[name] \notin {NoFile, Malformed}

\* C10: a file of the data folder disappears only in the step after the
\* commit of its name and only when keep_files is off; a failing step
\* removes no file, and a call with keep_files on returns with the file of
\* every committed name in place.
C10_RemoveAfterCommit ==
    [][/\ \A name \in OboNames :
             (files[name] # NoFile /\ files'[name] = NoFile)
             => /\ pc = "account" /\ ~args.keep_files
                /\ name = obo_name /\ Called("commit", idx)
       /\ pc' = "raised" => files' = files
       /\ (pc' = "returned" /\ args'.keep_files)
             => \A turn \in 1..Len(args'.obo_names) :
                   (Called("commit", turn))' => files'[args'.obo_names[turn]] # NoFile]_vars

C10_Witness ==
    /\ pc = "lookup" /\ idx = 2 /\ ~args.keep_files
    /\ Called("commit", 1) /\ Called("remove", 1)
    /\ files[args.obo_names[1]] = NoFile

\* the classes of the loaded ontology that carry no label
Unlabelled == {k \in 1..Len(onto.classes) :
                  ~Has(onto.classes[k], "label") \/ onto.classes[k].label = <<>>}

\* C11: once the classes of the loaded ontology have been extracted, no
\* term record has the identifier of a class without a label and no synonym,
\* identifier or cross-reference record refers to it, the batch of terms has
\* one record per labelled class, the extraction has raised nothing, and
\* after the commit no Term row of the ontology has that identifier.
C11_NoLabelNoTerm ==
    /\ pc \in {"insert", "commit", "account"} =>
          /\ \A k \in Unlabelled :
                /\ \A j \in 1..Len(data.terms) : data.terms[j].id # onto.classes[k].name
                /\ \A j \in 1..Len(data.synonyms) :
                      data.synonyms[j].term_id # onto.classes[k].name
                /\ \A j \in 1..Len(data.identifiers) :
                      data.identifiers[j].term_id # onto.classes[k].name
                /\ \A j \in 1..Len(data.xrefs) : data.xrefs[j].term_id # onto.classes[k].name
          /\ Len(data.terms) = Len(onto.classes) - Cardinality(Unlabelled)
    /\ pc = "insert" => error = NoValue
    /\ pc = "account" =>
          \A k \in Unlabelled :
             \A t \in db.rows.term :
                ~(t.id = onto.classes[k].name /\ t.ontology_id = onto.name)

C11_Witness ==
    /\ pc = "account" /\ Unlabelled # {}
    /\ \E k \in Unlabelled : Attr(onto.classes[k], "hasNarrowSynonym") # <<>>
    /\ Len(data.terms) = 1 /\ data.synonyms # <<>>
    /\ TermsOfOntology(db.rows, onto.name) # {}

====
